---- MODULE Spec2Model ----
(***************************************************************************)
(* Missing-information detector and e-mail sender of the agent tools       *)
(* (src/src/mastra/tools/agent-tools.ts, gmail-api-tool.ts).               *)
(*                                                                         *)
(* Identifiers (table names, column names, row keys) are TLA+ strings.     *)
(* Chars spells every identifier of the model out as its characters, so    *)
(* that String.prototype.includes and toLowerCase are computed character   *)
(* by character and not looked up.  Table names are regular SQL            *)
(* identifiers (non-empty, not starting with a digit), for which           *)
(* Object.keys enumerates the grouping object in insertion order.          *)
(***************************************************************************)
EXTENDS Integers, Sequences, FiniteSets, TLC

VARIABLES
    pc,            \* position of the detect-missing-info invocation
    input,         \* its input object
    db,            \* the database behind the query executor
    calls,         \* queries issued to the executor so far, in order
    inFlight,      \* queries issued and not yet completed
    failedCalls,   \* number of executor calls that threw
    schemaData,    \* catalog rows the analysis ran on (<<>> before)
    tableAnalysis, \* result of analyzeTableSchema (NoAnalysis before)
    summary,       \* first row of the summary query's result
    candidatesData,\* rows of the detail query's result
    outcome,       \* what detect-missing-info delivered to its caller
    sendPc,        \* position of the send-email invocation
    sendModule,    \* which module's sendEmailTool is invoked
    sendInput,     \* its input object
    transportCalls,\* number of calls of sendEmailWithGmailAPI
    sendOutcome,   \* what send-email delivered to its caller
    fnIn,          \* argument of the pure function under check
    fnOut          \* its result

vars == <<pc, input, db, calls, inFlight, failedCalls, schemaData, tableAnalysis,
          summary, candidatesData, outcome, sendPc, sendModule, sendInput,
          transportCalls, sendOutcome, fnIn, fnOut>>

detectVars == <<pc, input, db, calls, inFlight, failedCalls, schemaData,
                tableAnalysis, summary, candidatesData, outcome>>
sendVars == <<sendPc, sendModule, sendInput, transportCalls, sendOutcome>>
fnVars == <<fnIn, fnOut>>

----------------------------------------------------------------------------
(* JavaScript values *)

Null == "<null>"
Undefined == "<undefined>"

\* !v of JavaScript for the string-or-null values of the model
Falsy(v) == v \in {"", Null, Undefined}

\* the characters of every identifier the model uses
Chars ==
       "" :> <<>> @@
       "candidates" :> <<"c", "a", "n", "d", "i", "d", "a", "t", "e", "s">> @@
       "contacts" :> <<"c", "o", "n", "t", "a", "c", "t", "s">> @@
       "users" :> <<"u", "s", "e", "r", "s">> @@
       "people" :> <<"p", "e", "o", "p", "l", "e">> @@
       "customers" :> <<"c", "u", "s", "t", "o", "m", "e", "r", "s">> @@
       "clients" :> <<"c", "l", "i", "e", "n", "t", "s">> @@
       "email" :> <<"e", "m", "a", "i", "l">> @@
       "email_address" :> <<"e", "m", "a", "i", "l", "_", "a", "d", "d", "r", "e", "s", "s">> @@
       "contact_email" :> <<"c", "o", "n", "t", "a", "c", "t", "_", "e", "m", "a", "i", "l">> @@
       "mail" :> <<"m", "a", "i", "l">> @@
       "phone" :> <<"p", "h", "o", "n", "e">> @@
       "phone_number" :> <<"p", "h", "o", "n", "e", "_", "n", "u", "m", "b", "e", "r">> @@
       "contact_phone" :> <<"c", "o", "n", "t", "a", "c", "t", "_", "p", "h", "o", "n", "e">> @@
       "mobile" :> <<"m", "o", "b", "i", "l", "e">> @@
       "telephone" :> <<"t", "e", "l", "e", "p", "h", "o", "n", "e">> @@
       "name" :> <<"n", "a", "m", "e">> @@
       "full_name" :> <<"f", "u", "l", "l", "_", "n", "a", "m", "e">> @@
       "first_name" :> <<"f", "i", "r", "s", "t", "_", "n", "a", "m", "e">> @@
       "last_name" :> <<"l", "a", "s", "t", "_", "n", "a", "m", "e">> @@
       "contact_name" :> <<"c", "o", "n", "t", "a", "c", "t", "_", "n", "a", "m", "e">> @@
       "id" :> <<"i", "d">> @@
       "candidate_id" :> <<"c", "a", "n", "d", "i", "d", "a", "t", "e", "_", "i", "d">> @@
       "contact_id" :> <<"c", "o", "n", "t", "a", "c", "t", "_", "i", "d">> @@
       "user_id" :> <<"u", "s", "e", "r", "_", "i", "d">> @@
       "person_id" :> <<"p", "e", "r", "s", "o", "n", "_", "i", "d">> @@
       "resume" :> <<"r", "e", "s", "u", "m", "e">> @@
       "form" :> <<"f", "o", "r", "m">> @@
       "application" :> <<"a", "p", "p", "l", "i", "c", "a", "t", "i", "o", "n">> @@
       "profile" :> <<"p", "r", "o", "f", "i", "l", "e">> @@
       "information" :> <<"i", "n", "f", "o", "r", "m", "a", "t", "i", "o", "n">> @@
       "jobs" :> <<"j", "o", "b", "s">> @@
       "resumes" :> <<"r", "e", "s", "u", "m", "e", "s">> @@
       "Contacts" :> <<"C", "o", "n", "t", "a", "c", "t", "s">> @@
       "audit_log" :> <<"a", "u", "d", "i", "t", "_", "l", "o", "g">> @@
       "Users" :> <<"U", "s", "e", "r", "s">> @@
       "title" :> <<"t", "i", "t", "l", "e">> @@
       "content_json" :> <<"c", "o", "n", "t", "e", "n", "t", "_", "j", "s", "o", "n">> @@
       "Contact_ID" :> <<"C", "o", "n", "t", "a", "c", "t", "_", "I", "D">> @@
       "Email_Address" :> <<"E", "m", "a", "i", "l", "_", "A", "d", "d", "r", "e", "s", "s">> @@
       "Mobile" :> <<"M", "o", "b", "i", "l", "e">> @@
       "First_Name" :> <<"F", "i", "r", "s", "t", "_", "N", "a", "m", "e">> @@
       "actor_email" :> <<"a", "c", "t", "o", "r", "_", "e", "m", "a", "i", "l">> @@
       "record_id" :> <<"r", "e", "c", "o", "r", "d", "_", "i", "d">> @@
       "missing_email" :> <<"m", "i", "s", "s", "i", "n", "g", "_", "e", "m", "a", "i", "l">> @@
       "missing_phone" :> <<"m", "i", "s", "s", "i", "n", "g", "_", "p", "h", "o", "n", "e">> @@
       "missing_name" :> <<"m", "i", "s", "s", "i", "n", "g", "_", "n", "a", "m", "e">> @@
       "recoverable_name" :> <<"r", "e", "c", "o", "v", "e", "r", "a", "b", "l", "e", "_", "n", "a", "m", "e">> @@
       "recoverable_contact" :> <<"r", "e", "c", "o", "v", "e", "r", "a", "b", "l", "e", "_", "c", "o", "n", "t", "a", "c", "t">> @@
       "recoverable_phone" :> <<"r", "e", "c", "o", "v", "e", "r", "a", "b", "l", "e", "_", "p", "h", "o", "n", "e">> @@
       "business_unit_id" :> <<"b", "u", "s", "i", "n", "e", "s", "s", "_", "u", "n", "i", "t", "_", "i", "d">> @@
       "contact_candidate_id" :> <<"c", "o", "n", "t", "a", "c", "t", "_", "c", "a", "n", "d", "i", "d", "a", "t", "e", "_", "i", "d">> @@
       "candidate_candidate_id" :> <<"c", "a", "n", "d", "i", "d", "a", "t", "e", "_", "c", "a", "n", "d", "i", "d", "a", "t", "e", "_", "i", "d">> @@
       "jane@x.io" :> <<"j", "a", "n", "e", "@", "x", ".", "i", "o">> @@
       "0612345678" :> <<"0", "6", "1", "2", "3", "4", "5", "6", "7", "8">> @@
       " 0612345678 " :> <<" ", "0", "6", "1", "2", "3", "4", "5", "6", "7", "8", " ">> @@
       "Jane Doe" :> <<"J", "a", "n", "e", " ", "D", "o", "e">> @@
       " Jane Doe " :> <<" ", "J", "a", "n", "e", " ", "D", "o", "e", " ">> @@
       "call 0612345678 now" :> <<"c", "a", "l", "l", " ", "0", "6", "1", "2", "3", "4", "5", "6", "7", "8", " ", "n", "o", "w">> @@
       "n/a" :> <<"n", "/", "a">> @@
       "Hello" :> <<"H", "e", "l", "l", "o">> @@
       "Hi" :> <<"H", "i">>

\* c.toLowerCase() for one character
LowerChar(c) ==
    CASE c = "A" -> "a" [] c = "B" -> "b" [] c = "C" -> "c" [] c = "D" -> "d"
      [] c = "E" -> "e" [] c = "F" -> "f" [] c = "G" -> "g" [] c = "H" -> "h"
      [] c = "I" -> "i" [] c = "J" -> "j" [] c = "K" -> "k" [] c = "L" -> "l"
      [] c = "M" -> "m" [] c = "N" -> "n" [] c = "O" -> "o" [] c = "P" -> "p"
      [] c = "Q" -> "q" [] c = "R" -> "r" [] c = "S" -> "s" [] c = "T" -> "t"
      [] c = "U" -> "u" [] c = "V" -> "v" [] c = "W" -> "w" [] c = "X" -> "x"
      [] c = "Y" -> "y" [] c = "Z" -> "z" [] OTHER -> c

\* s.toLowerCase(): the identifier spelled with every character lowered
ToLowerCase(s) ==
    LET low == [i \in 1..Len(Chars[s]) |-> LowerChar(Chars[s][i])]
    IN  CHOOSE n \in DOMAIN Chars : Chars[n] = low

\* s.includes(p): p occurs in s as a contiguous substring
StrIncludes(s, p) ==
    LET cs == Chars[s]
        cp == Chars[p]
    IN  \E i \in 0..(Len(cs) - Len(cp)) : SubSeq(cs, i + 1, i + Len(cp)) = cp

\* arr.includes(x) for an array
ArrIncludes(arr, x) == \E i \in DOMAIN arr : arr[i] = x

\* arr.some(p => s.includes(p))
MatchesAny(s, patterns) == \E i \in DOMAIN patterns : StrIncludes(s, patterns[i])

\* arr.find(col => patterns.some(p => col.includes(p))) || dflt
FindMatching(columns, patterns, dflt) ==
    IF \E i \in DOMAIN columns : MatchesAny(columns[i], patterns)
    THEN columns[CHOOSE i \in DOMAIN columns :
                    /\ MatchesAny(columns[i], patterns)
                    /\ \A j \in 1..(i - 1) : ~MatchesAny(columns[j], patterns)]
    ELSE dflt

----------------------------------------------------------------------------
(* analyzeTableSchema *)

candidateTablePatterns == <<"candidates", "contacts", "users", "people", "customers", "clients">>
emailFieldPatterns == <<"email", "email_address", "contact_email", "mail">>
phoneFieldPatterns == <<"phone", "phone_number", "contact_phone", "mobile", "telephone">>
nameFieldPatterns == <<"name", "full_name", "first_name", "last_name", "contact_name">>
idFieldPatterns == <<"id", "candidate_id", "contact_id", "user_id", "person_id">>
recoveryTablePatterns == <<"resume", "form", "application", "profile", "information">>

\* the table names with the latest first
AllTablesReversed(rows) ==
    LET keys[i \in 0..Len(rows)] ==
            IF i = 0 THEN <<>>
            ELSE IF ArrIncludes(keys[i - 1], rows[i].table_name)
                 THEN keys[i - 1]
                 ELSE <<rows[i].table_name>> \o keys[i - 1]
    IN  keys[Len(rows)]

\* Object.keys(tableColumns): the table names in order of first appearance
AllTables(rows) ==
    LET keys[i \in 0..Len(rows)] ==
            IF i = 0 THEN <<>>
            ELSE IF ArrIncludes(keys[i - 1], rows[i].table_name)
                 THEN keys[i - 1]
                 ELSE Append(keys[i - 1], rows[i].table_name)
    IN  keys[Len(rows)]

\* tableColumns[tableName]: the table's column names, lower-cased, in catalog order
TableColumns(rows, tableName) ==
    LET OfTable(r) == r.table_name = tableName
        mine == SelectSeq(rows, OfTable)
    IN  [i \in 1..Len(mine) |-> ToLowerCase(mine[i].column_name)]

\* the grouping loop dereferences column_name of every row
AnalyzeThrows(rows) == \E i \in DOMAIN rows : rows[i].column_name = Undefined

hasContactFields(columns) ==
    \E i \in DOMAIN columns :
        \/ MatchesAny(columns[i], emailFieldPatterns)
        \/ MatchesAny(columns[i], phoneFieldPatterns)
        \/ MatchesAny(columns[i], nameFieldPatterns)

\* the reduce over candidateTablePatterns, plus columns.length
tableScore(tableName, columns) ==
    LET hit[i \in 0..Len(candidateTablePatterns)] ==
            IF i = 0 THEN 0
            ELSE hit[i - 1] +
                 (IF StrIncludes(ToLowerCase(tableName), candidateTablePatterns[i])
                  THEN 10 ELSE 0)
    IN  hit[Len(candidateTablePatterns)] + Len(columns)

\* idField initialised to its default instead of ''
NoBindingDefaultId == [mainTable |-> "", emailField |-> "", phoneField |-> "",
                       nameField |-> "", idField |-> "id"]

NoBinding == [mainTable |-> "", emailField |-> "", phoneField |-> "",
              nameField |-> "", idField |-> ""]

\* the loop without the test of !mainTable: the last match wins
SelectStepLastMatch(acc, tableName, columns) ==
    IF /\ hasContactFields(columns)
       /\ tableScore(tableName, columns) > 0
    THEN [mainTable  |-> tableName,
          emailField |-> FindMatching(columns, emailFieldPatterns, ""),
          phoneField |-> FindMatching(columns, phoneFieldPatterns, ""),
          nameField  |-> FindMatching(columns, nameFieldPatterns, ""),
          idField    |-> FindMatching(columns, idFieldPatterns, "id")]
    ELSE acc

\* one iteration of the loop "for (const tableName of allTables)"
SelectStep(acc, tableName, columns) ==
    IF /\ hasContactFields(columns)
       /\ tableScore(tableName, columns) > 0
       /\ Falsy(acc.mainTable)
    THEN [mainTable  |-> tableName,
          emailField |-> FindMatching(columns, emailFieldPatterns, ""),
          phoneField |-> FindMatching(columns, phoneFieldPatterns, ""),
          nameField  |-> FindMatching(columns, nameFieldPatterns, ""),
          idField    |-> FindMatching(columns, idFieldPatterns, "id")]
    ELSE acc

isRecoveryTable(tableName) ==
    \E i \in DOMAIN recoveryTablePatterns :
        StrIncludes(ToLowerCase(tableName), recoveryTablePatterns[i])

analyzeTableSchema(rows) ==
    LET allTables == AllTables(rows)
        sel[i \in 0..Len(allTables)] ==
            IF i = 0 THEN NoBinding
            ELSE SelectStep(sel[i - 1], allTables[i], TableColumns(rows, allTables[i]))
        bound == sel[Len(allTables)]
    IN  [mainTable      |-> bound.mainTable,
         emailField     |-> bound.emailField,
         phoneField     |-> bound.phoneField,
         nameField      |-> bound.nameField,
         idField        |-> bound.idField,
         allTables      |-> allTables,
         recoveryTables |-> SelectSeq(allTables, isRecoveryTable)]

----------------------------------------------------------------------------
(* categorizeCandidatePriority *)

\* the slip "phone or name missing" for High
categorizePriorityEitherIsHigh(missingFields, recoverableFields) ==
    LET hasMissingEmail == ArrIncludes(missingFields, "email")
        hasMissingPhone == ArrIncludes(missingFields, "phone_number")
        hasMissingName  == ArrIncludes(missingFields, "full_name")
    IN  IF hasMissingEmail THEN "Critical"
        ELSE IF hasMissingPhone \/ hasMissingName THEN "High"
        ELSE IF \/ hasMissingPhone /\ ~ArrIncludes(recoverableFields, "phone_number")
                \/ hasMissingName /\ ~ArrIncludes(recoverableFields, "full_name")
             THEN "Medium"
        ELSE "Low"

categorizeCandidatePriority(missingFields, recoverableFields) ==
    LET hasMissingEmail == ArrIncludes(missingFields, "email")
        hasMissingPhone == ArrIncludes(missingFields, "phone_number")
        hasMissingName  == ArrIncludes(missingFields, "full_name")
    IN  IF hasMissingEmail THEN "Critical"
        ELSE IF hasMissingPhone /\ hasMissingName THEN "High"
        ELSE IF \/ hasMissingPhone /\ ~ArrIncludes(recoverableFields, "phone_number")
                \/ hasMissingName /\ ~ArrIncludes(recoverableFields, "full_name")
             THEN "Medium"
        ELSE "Low"

----------------------------------------------------------------------------
(* The statements detect-missing-info sends, as their clauses *)

discoveryQuery == [kind |-> "catalog"]

\* the summary statement: COUNT over each bound field, a literal 0 otherwise
summaryQuery(ta) ==
    [kind |-> "summary", from |-> ta.mainTable,
     emailCol |-> ta.emailField, phoneCol |-> ta.phoneField, nameCol |-> ta.nameField]

\* s.replace(p, r): the first occurrence of p in s replaced by r
StrReplace(s, p, r) ==
    IF ~StrIncludes(s, p) THEN s
    ELSE LET cs == Chars[s]
             cp == Chars[p]
             at == CHOOSE i \in 0..(Len(cs) - Len(cp)) :
                      /\ SubSeq(cs, i + 1, i + Len(cp)) = cp
                      /\ \A j \in 0..(i - 1) : SubSeq(cs, j + 1, j + Len(cp)) # cp
             out == SubSeq(cs, 1, at) \o Chars[r] \o SubSeq(cs, at + Len(cp) + 1, Len(cs))
         IN  CHOOSE n \in DOMAIN Chars : Chars[n] = out

buildDetailedQuery(ta, includeRecoveryAnalysis, limitResults) ==
    IF ~includeRecoveryAnalysis \/ Len(ta.recoveryTables) = 0
    THEN [kind |-> "detail", from |-> ta.mainTable, idCol |-> ta.idField,
          emailCol |-> ta.emailField, phoneCol |-> ta.phoneField,
          nameCol |-> ta.nameField, join |-> "", joinCol |-> "",
          limit |-> limitResults]
    ELSE [kind |-> "detail", from |-> ta.mainTable, idCol |-> ta.idField,
          emailCol |-> ta.emailField, phoneCol |-> ta.phoneField,
          nameCol |-> ta.nameField, join |-> ta.recoveryTables[1],
          joinCol |-> StrReplace(ta.idField, "id", "candidate_id"),
          limit |-> limitResults]

----------------------------------------------------------------------------
(* The query executor: what a PostgreSQL database answers to the statements *)

Threw(msg) == [kind |-> "throw", message |-> msg]
Rows(rs) == [kind |-> "array", rows |-> rs]

\* an unquoted identifier is folded to lower case before it is looked up
HasTable(d, t) == \E i \in DOMAIN d.tables : d.tables[i].name = ToLowerCase(t)
HasColumn(d, t, c) ==
    \E i \in DOMAIN d.tables :
        /\ d.tables[i].name = ToLowerCase(t)
        /\ ArrIncludes(d.tables[i].columns, ToLowerCase(c))

\* information_schema.columns: one row per column
ExecCatalog(d) ==
    LET cat[i \in 0..Len(d.tables)] ==
            IF i = 0 THEN <<>>
            ELSE cat[i - 1] \o
                 [j \in 1..Len(d.tables[i].columns) |->
                     [table_name |-> d.tables[i].name,
                      column_name |-> d.tables[i].columns[j]]]
    IN  Rows(cat[Len(d.tables)])

\* COUNT(*) - COUNT(col): the rows whose col is NULL
CountNull(rows, col) == Cardinality({i \in DOMAIN rows : rows[i][col] = Null})

BoundCols(q) == {c \in {q.emailCol, q.phoneCol, q.nameCol} : c # ""}

\* the summary statement; the percentages divide by total_records
ExecSummary(d, q) ==
    IF ~HasTable(d, q.from) THEN Threw("relation does not exist")
    ELSE IF \E c \in BoundCols(q) : ~HasColumn(d, q.from, c)
    THEN Threw("column does not exist")
    ELSE IF Len(d.data) = 0 THEN Threw("division by zero")
    ELSE Rows(<<[total_records |-> Len(d.data),
                 missing_email |-> IF q.emailCol # "" THEN CountNull(d.data, q.emailCol) ELSE 0,
                 missing_phone |-> IF q.phoneCol # "" THEN CountNull(d.data, q.phoneCol) ELSE 0,
                 missing_name  |-> IF q.nameCol # "" THEN CountNull(d.data, q.nameCol) ELSE 0]>>)

\* CASE WHEN col IS NULL THEN 1 ELSE 0 END, or the literal 0 of an unbound field
MissingFlag(row, col) == IF col # "" /\ row[col] = Null THEN 1 ELSE 0

\* the selection of missing_records: the base columns of one main-table row
BaseRow(row, q) ==
    ("record_id" :> row[q.idCol]) @@
    ("email" :> IF q.emailCol # "" THEN row[q.emailCol] ELSE Null) @@
    ("phone" :> IF q.phoneCol # "" THEN row[q.phoneCol] ELSE Null) @@
    ("name"  :> IF q.nameCol # "" THEN row[q.nameCol] ELSE Null) @@
    ("missing_email" :> MissingFlag(row, q.emailCol)) @@
    ("missing_phone" :> MissingFlag(row, q.phoneCol)) @@
    ("missing_name"  :> MissingFlag(row, q.nameCol))

MissingCount(r) == r["missing_email"] + r["missing_phone"] + r["missing_name"]

\* ORDER BY missing count DESC, record_id
SortDetail(rows) ==
    LET Before(a, b) ==
            \/ MissingCount(a) > MissingCount(b)
            \/ MissingCount(a) = MissingCount(b) /\ a["record_id"] < b["record_id"]
        Insert(sorted, r) ==
            LET k == Cardinality({i \in DOMAIN sorted : ~Before(r, sorted[i])})
            IN  SubSeq(sorted, 1, k) \o <<r>> \o SubSeq(sorted, k + 1, Len(sorted))
        ins[i \in 0..Len(rows)] ==
            IF i = 0 THEN <<>> ELSE Insert(ins[i - 1], rows[i])
    IN  ins[Len(rows)]

\* LIMIT n
Limit(rows, n) == SubSeq(rows, 1, IF n < Len(rows) THEN n ELSE Len(rows))

IsPhoneChar(c) == c \in {"0", "1", "2", "3", "4", "5", "6", "7", "8", "9", " ", "-", "(", ")"}

\* the leftmost match of \+?[\d\s\-\(\)]{8,} in s, or Null
PhoneMatch(s) ==
    IF s = Null THEN Null
    ELSE LET cs == Chars[s]
             RunEnd(i) == CHOOSE j \in (i - 1)..Len(cs) :
                             /\ \A k \in i..j : IsPhoneChar(cs[k])
                             /\ j = Len(cs) \/ ~IsPhoneChar(cs[j + 1])
             MatchEnd(i) == IF cs[i] = "+" THEN RunEnd(i + 1) ELSE RunEnd(i)
             First(i) == IF cs[i] = "+" THEN i + 1 ELSE i
             Matches(i) == MatchEnd(i) - First(i) + 1 >= 8
         IN  IF \E i \in DOMAIN cs : Matches(i)
             THEN LET at == CHOOSE i \in DOMAIN cs :
                                Matches(i) /\ \A j \in 1..(i - 1) : ~Matches(j)
                      m == SubSeq(cs, at, MatchEnd(at))
                  IN  CHOOSE n \in DOMAIN Chars : Chars[n] = m
             ELSE Null

\* one row of recovery_analysis: mr.* and what the joined row r offers
JoinedRow(mr, r) ==
    mr @@ ("recoverable_name" :> r.name) @@ ("recoverable_contact" :> r.contact) @@
    ("recoverable_phone" :> IF mr["missing_phone"] = 1 THEN PhoneMatch(r.contact) ELSE Null)

NoResume == [candidate_id |-> 0, name |-> Null, contact |-> Null]

\* missing_records LEFT JOIN the recovery table ON candidate_id = record_id
LeftJoin(base, resumes) ==
    LET Of(mr) == LET Mine(r) == r.candidate_id = mr["record_id"]
                  IN  SelectSeq(resumes, Mine)
        joined[i \in 0..Len(base)] ==
            IF i = 0 THEN <<>>
            ELSE joined[i - 1] \o
                 (IF Len(Of(base[i])) = 0
                  THEN <<JoinedRow(base[i], NoResume)>>
                  ELSE [j \in 1..Len(Of(base[i])) |-> JoinedRow(base[i], Of(base[i])[j])])
    IN  joined[Len(base)]

\* the detail statement, without and with the recovery join
ExecDetail(d, q) ==
    IF ~HasTable(d, q.from) THEN Threw("relation does not exist")
    ELSE IF \E c \in BoundCols(q) \cup {q.idCol} : ~HasColumn(d, q.from, c)
    THEN Threw("column does not exist")
    ELSE LET IsMissing(row) == \E c \in BoundCols(q) : row[c] = Null
             picked == SelectSeq(d.data, IsMissing)
             base == [i \in 1..Len(picked) |-> BaseRow(picked[i], q)]
         IN  IF q.join = "" THEN Rows(Limit(SortDetail(base), q.limit))
             ELSE IF ~HasTable(d, q.join) THEN Threw("relation does not exist")
             ELSE IF \E c \in {q.joinCol, "candidate_id", "content_json"} :
                        ~HasColumn(d, q.join, c)
             THEN Threw("column does not exist")
             ELSE Rows(Limit(SortDetail(LeftJoin(base, d.resumes)), q.limit))

----------------------------------------------------------------------------
(* Report assembly: steps 5 to 7 of detect-missing-info *)

\* record[key]: undefined for a key the row does not have
Get(record, key) == IF key \in DOMAIN record THEN record[key] ELSE Undefined

\* value || null
OrNull(v) == IF Falsy(v) THEN Null ELSE v

\* record.flag === 1
FlagSet(record, flag) == flag \in DOMAIN record /\ record[flag] = 1

\* a truthy value that is not a string: calling trim on it is a TypeError
NonString == "<non-string>"

IsSpace(c) == c = " "

\* s.trim()
Trim(s) ==
    LET cs == Chars[s]
        keep == {i \in DOMAIN cs : ~IsSpace(cs[i])}
    IN  IF keep = {} THEN ""
        ELSE LET lo == CHOOSE i \in keep : \A j \in keep : i <= j
                 hi == CHOOSE i \in keep : \A j \in keep : j <= i
             IN  CHOOSE n \in DOMAIN Chars : Chars[n] = SubSeq(cs, lo, hi)

\* the filter of step 5; null and {} have no flag set
HasMissingFlag(record) ==
    \/ FlagSet(record, "missing_email")
    \/ FlagSet(record, "missing_phone")
    \/ FlagSet(record, "missing_name")

\* the name field never pushed
missingFieldsOfWithoutName(record, ta) ==
    (IF FlagSet(record, "missing_email") /\ ta.emailField # "" THEN <<ta.emailField>> ELSE <<>>) \o
    (IF FlagSet(record, "missing_phone") /\ ta.phoneField # "" THEN <<ta.phoneField>> ELSE <<>>)

missingFieldsOf(record, ta) ==
    (IF FlagSet(record, "missing_email") /\ ta.emailField # "" THEN <<ta.emailField>> ELSE <<>>) \o
    (IF FlagSet(record, "missing_phone") /\ ta.phoneField # "" THEN <<ta.phoneField>> ELSE <<>>) \o
    (IF FlagSet(record, "missing_name") /\ ta.nameField # "" THEN <<ta.nameField>> ELSE <<>>)

\* the recoverable value is looked at only inside the branch of its missing flag
PhoneRecoverable(record, ta) ==
    /\ FlagSet(record, "missing_phone") /\ ta.phoneField # ""
    /\ ~Falsy(Get(record, "recoverable_phone"))

\* the recoverable name looked at outside the branch of its missing flag
NameRecoverableAnyRow(record, ta) ==
    /\ ta.nameField # ""
    /\ ~Falsy(Get(record, "recoverable_name"))

NameRecoverable(record, ta) ==
    /\ FlagSet(record, "missing_name") /\ ta.nameField # ""
    /\ ~Falsy(Get(record, "recoverable_name"))

recoverableFieldsOf(record, ta) ==
    (IF PhoneRecoverable(record, ta) THEN <<ta.phoneField>> ELSE <<>>) \o
    (IF NameRecoverable(record, ta) THEN <<ta.nameField>> ELSE <<>>)

recoverySourcesOf(record, ta) ==
    [phone_from_related |-> IF PhoneRecoverable(record, ta)
                            THEN Trim(record["recoverable_phone"]) ELSE Undefined,
     name_from_related  |-> IF NameRecoverable(record, ta)
                            THEN Trim(record["recoverable_name"]) ELSE Undefined]

\* .trim() of a value that is not a string throws
MapThrows(record, ta) ==
    \/ PhoneRecoverable(record, ta) /\ record["recoverable_phone"] = NonString
    \/ NameRecoverable(record, ta) /\ record["recoverable_name"] = NonString

\* String(record.record_id || record.id || 'unknown')
candidateIdOf(record) ==
    IF "record_id" \in DOMAIN record /\ record["record_id"] # 0
    THEN ToString(record["record_id"])
    ELSE IF "id" \in DOMAIN record /\ record["id"] # 0
    THEN ToString(record["id"])
    ELSE "unknown"

\* the object the map of step 5 builds for one detail row
MissingInfoRecord(record, ta) ==
    [candidate_id       |-> candidateIdOf(record),
     full_name          |-> OrNull(Get(record, IF ta.nameField # "" THEN ta.nameField ELSE "name")),
     email              |-> OrNull(Get(record, IF ta.emailField # "" THEN ta.emailField ELSE "email")),
     phone_number       |-> OrNull(Get(record, IF ta.phoneField # "" THEN ta.phoneField ELSE "phone")),
     business_unit_id   |-> OrNull(Get(record, "business_unit_id")),
     missing_fields     |-> missingFieldsOf(record, ta),
     recoverable_fields |-> recoverableFieldsOf(record, ta),
     recovery_sources   |-> recoverySourcesOf(record, ta),
     priority           |-> categorizeCandidatePriority(missingFieldsOf(record, ta),
                                                        recoverableFieldsOf(record, ta))]

missingInfoReportOf(rows, ta) ==
    LET kept == SelectSeq(rows, HasMissingFlag)
    IN  [i \in 1..Len(kept) |-> MissingInfoRecord(kept[i], ta)]

\* step 6
filterByPriority(report, priorityFilter) ==
    IF priorityFilter # ""
    THEN LET Wanted(r) == r.priority = priorityFilter
         IN  SelectSeq(report, Wanted)
    ELSE report

\* report.filter(r => r.recoverable_fields.some(f => f.includes(word))).length
countRecoverable(report, word) ==
    Cardinality({i \in DOMAIN report :
        \E j \in DOMAIN report[i].recoverable_fields :
            StrIncludes(report[i].recoverable_fields[j], word)})

\* Math.ceil in the place of Math.round
CeilPercent(a, b) == (100 * a + b - 1) \div b

\* Math.round((a / b) * 100) for a >= 0 and b > 0: halves round up
RoundPercent(a, b) == (200 * a + b) \div (2 * b)

\* summary.count > 0 ? Math.round((recoverable / summary.count) * 100) : 0
recoveryRate(recoverable, sum, count) ==
    IF count \in DOMAIN sum.row /\ sum.row[count] > 0
    THEN RoundPercent(recoverable, sum.row[count])
    ELSE 0

\* the statistics computed over what the filter left
statisticsOverFiltered(report, filtered) == filtered

\* the report the statistics of step 7 are computed over
statisticsBase(report, filtered) == report

enhancedSummaryOf(sum, report) ==
    [total_candidates         |-> Get(sum.row, "total_records"),
     candidates_missing_phone |-> Get(sum.row, "missing_phone"),
     candidates_missing_name  |-> Get(sum.row, "missing_name"),
     candidates_missing_email |-> Get(sum.row, "missing_email"),
     phone_recovery_rate      |-> recoveryRate(countRecoverable(report, "phone"), sum, "missing_phone"),
     name_recovery_rate       |-> recoveryRate(countRecoverable(report, "name"), sum, "missing_name"),
     recoverable_phones       |-> countRecoverable(report, "phone"),
     recoverable_names        |-> countRecoverable(report, "name")]

\* steps 5 to 7 raise a TypeError on a malformed row or a null summary
AssembleThrows(ta, sum, rows) ==
    \/ \E i \in DOMAIN rows : HasMissingFlag(rows[i]) /\ MapThrows(rows[i], ta)
    \/ sum.null

\* the object returned on success
SuccessResult(ta, sum, rows, in) ==
    LET report == missingInfoReportOf(rows, ta)
        filtered == filterByPriority(report, in.priorityFilter)
    IN  [success |-> TRUE,
         main_table |-> ta.mainTable,
         discovered_tables |-> ta.allTables,
         recovery_tables |-> ta.recoveryTables,
         field_mapping |-> [email_field |-> ta.emailField, phone_field |-> ta.phoneField,
                            name_field |-> ta.nameField, id_field |-> ta.idField],
         summary |-> enhancedSummaryOf(sum, statisticsBase(report, filtered)),
         missing_info_report |-> filtered]

----------------------------------------------------------------------------
(* Bounds and the values the environment supplies *)

MaxRows == 2          \* rows of the contact table of a database
MaxOpaqueRows == 1    \* rows of a detail result that no database explains
MaxTables == 3        \* tables of a catalog handed to analyzeTableSchema
MaxFields == 3        \* length of the arrays handed to categorizeCandidatePriority

Priorities == {"Critical", "High", "Medium", "Low"}

\* the input object after the defaults; "" is an absent priorityFilter
Inputs ==
    [includeRecoveryAnalysis : BOOLEAN, limitResults : {1, 50},
     priorityFilter : Priorities \cup {""}]

\* all sequences over S of length at most n
SeqsUpTo(S, n) == UNION {[1..k -> S] : k \in 0..n}

Table(n, cols) == [name |-> n, columns |-> cols]

CandidatesTable == Table("candidates", <<"id", "email", "phone_number", "full_name">>)
UsersTable      == Table("users", <<"id", "email", "phone_number", "full_name">>)
ContactsTable   == Table("contacts", <<"contact_id", "email_address", "mobile", "first_name">>)
MixedCaseTable  == Table("Contacts", <<"Contact_ID", "Email_Address", "Mobile", "First_Name">>)
PeopleTable     == Table("people", <<"id", "name", "phone", "mail">>)
AuditTable      == Table("audit_log", <<"actor_email">>)
JobsTable       == Table("jobs", <<"id", "title">>)
ResumesTable    == Table("resumes", <<"id", "candidate_id", "content_json">>)

TableUniverse ==
    {CandidatesTable, UsersTable, ContactsTable, MixedCaseTable, PeopleTable,
     AuditTable, JobsTable, ResumesTable}

\* the catalog rows of a sequence of tables
CatalogOf(tables) == ExecCatalog([tables |-> tables]).rows

\* catalogs of up to MaxTables distinct tables, in every order
Catalogs ==
    {CatalogOf(ts) : ts \in {s \in SeqsUpTo(TableUniverse, MaxTables) :
                                \A i, j \in DOMAIN s : i # j => s[i].name # s[j].name}}

\* a row of a contact table: its id and a value or NULL in each contact column
ContactRow(t, id, e, p, n) ==
    (t.columns[1] :> id) @@ (t.columns[2] :> e) @@ (t.columns[3] :> p) @@ (t.columns[4] :> n)

ValueTriples == {Null, "jane@x.io"} \X {Null, "0612345678"} \X {Null, "Jane Doe"}

\* the three rows of the end-to-end scenario
EndToEndRows(t) ==
    <<ContactRow(t, 1, "jane@x.io", "0612345678", "Jane Doe"),
      ContactRow(t, 2, Null, "0612345678", "Jane Doe"),
      ContactRow(t, 3, "jane@x.io", Null, Null)>>

DataSets(t) ==
    {[i \in 1..Len(vs) |-> ContactRow(t, i, vs[i][1], vs[i][2], vs[i][3])] :
        vs \in SeqsUpTo(ValueTriples, MaxRows)} \cup {EndToEndRows(t)}

ResumeSets ==
    {<<>>,
     <<[candidate_id |-> 1, name |-> " Jane Doe ", contact |-> "call 0612345678 now"]>>,
     <<[candidate_id |-> 1, name |-> Null, contact |-> "n/a"],
       [candidate_id |-> 1, name |-> "Jane Doe", contact |-> "0612345678"]>>,
     <<[candidate_id |-> 1, name |-> " Jane Doe ", contact |-> "call 0612345678 now"],
       [candidate_id |-> 1, name |-> "Jane Doe", contact |-> "0612345678"]>>}

\* databases the executor evaluates the statements on
PostgresDbs ==
    {[mode |-> "postgres", tables |-> <<CandidatesTable>>, data |-> rows, resumes |-> <<>>] :
        rows \in DataSets(CandidatesTable)} \cup
    {[mode |-> "postgres", tables |-> <<CandidatesTable, ResumesTable>>, data |-> rows, resumes |-> rs] :
        rows \in DataSets(CandidatesTable), rs \in ResumeSets} \cup
    {[mode |-> "postgres", tables |-> <<ResumesTable, ContactsTable>>, data |-> rows, resumes |-> <<>>] :
        rows \in DataSets(ContactsTable)} \cup
    {[mode |-> "postgres", tables |-> <<JobsTable>>, data |-> <<>>, resumes |-> <<>>]}

\* an executor whose answers no database explains
OpaqueDb == [mode |-> "opaque", tables |-> <<>>, data |-> <<>>, resumes |-> <<>>]

Dbs == PostgresDbs \cup {OpaqueDb}

\* a result that is not an array: the code wraps it into a one-element array
Obj(o) == [kind |-> "object", obj |-> o]

NotARow == [table_name |-> Undefined, column_name |-> Undefined]

OpaqueCatalogs ==
    {Rows(<<>>), Obj(NotARow),
     Rows(<<[table_name |-> "users", column_name |-> "id"],
            [table_name |-> "users", column_name |-> Undefined]>>),
     Rows(CatalogOf(<<JobsTable>>)),
     Rows(CatalogOf(<<CandidatesTable>>)),
     Rows(CatalogOf(<<PeopleTable, ResumesTable>>)),
     Rows(CatalogOf(<<MixedCaseTable>>))}

\* the value of the variable summary: null, or an object with its properties
NullSummary == [null |-> TRUE, row |-> <<>>]
SummaryObject(r) == [null |-> FALSE, row |-> r]

OpaqueSummaries ==
    {Rows(<<>>), Obj(NullSummary), Obj(SummaryObject(<<>>)),
     Rows(<<[total_records |-> 3, missing_email |-> 1, missing_phone |-> 1, missing_name |-> 1]>>),
     Rows(<<[total_records |-> 2, missing_email |-> 0, missing_phone |-> 2, missing_name |-> 0]>>),
     Rows(<<[total_records |-> 3, missing_email |-> 0, missing_phone |-> 3, missing_name |-> 3]>>)}

\* null, or an object without any of the keys
NullRow == <<>>

OpaqueRow(id, fe, fp, fn, rp, rn) ==
    ("record_id" :> id) @@
    ("email" :> IF fe = 1 THEN Null ELSE "jane@x.io") @@
    ("phone" :> IF fp = 1 THEN Null ELSE "0612345678") @@
    ("name"  :> IF fn = 1 THEN Null ELSE "Jane Doe") @@
    ("missing_email" :> fe) @@ ("missing_phone" :> fp) @@ ("missing_name" :> fn) @@
    ("recoverable_phone" :> rp) @@ ("recoverable_name" :> rn)

OpaqueRowShapes ==
    {0, 1} \X {0, 1} \X {0, 1} \X {Null, " 0612345678 "} \X {Null, " Jane Doe "}

OpaqueDetails ==
    {Rows([i \in 1..Len(ss) |-> OpaqueRow(i, ss[i][1], ss[i][2], ss[i][3], ss[i][4], ss[i][5])]) :
        ss \in SeqsUpTo(OpaqueRowShapes, MaxOpaqueRows)} \cup
    {Obj(NullRow),
     Rows(<<OpaqueRow(1, 0, 1, 0, NonString, Null)>>)}

\* what the executor may answer to a statement
Responses(d, q) ==
    {Threw("Connection terminated")} \cup
    IF d.mode = "postgres"
    THEN {CASE q.kind = "catalog" -> ExecCatalog(d)
            [] q.kind = "summary" -> ExecSummary(d, q)
            [] q.kind = "detail"  -> ExecDetail(d, q)}
    ELSE CASE q.kind = "catalog" -> OpaqueCatalogs
           [] q.kind = "summary" -> OpaqueSummaries
           [] q.kind = "detail"  -> OpaqueDetails

----------------------------------------------------------------------------
(* detect-missing-info: one invocation *)

NoOutcome == [status |-> "none"]
Returned(v) == [status |-> "returned", value |-> v]
Thrown(msg) == [status |-> "thrown", message |-> msg]

Failure(tag, msg) == [success |-> FALSE, error |-> tag, message |-> msg]

\* without the catch a fault leaves execute as a thrown error
CatchAllRethrows(msg) == Thrown(msg)

\* the catch around the whole body turns any fault into a failure result
CatchAll(msg) == Returned(Failure("Failed to detect missing information", msg))

\* the failure listing the recovery tables in the place of all tables
NoMainTableFailureRecoveryOnly(ta) ==
    [success |-> FALSE,
     error |-> "No main contact/candidate table found",
     message |-> "Could not identify a primary table for contacts or candidates.",
     availableTables |-> ta.recoveryTables]

\* the failure returned when the analysis found no main table
NoMainTableFailure(ta) ==
    [success |-> FALSE,
     error |-> "No main contact/candidate table found",
     message |-> "Could not identify a primary table for contacts or candidates.",
     availableTables |-> ta.allTables]

\* Array.isArray(result) ? result : [result]
ArrayOf(resp) == IF resp.kind = "array" THEN resp.rows ELSE <<resp.obj>>

\* Array.isArray(result) && result.length > 0 ? result[0] : result
FirstRowOf(resp) ==
    IF resp.kind = "array"
    THEN IF Len(resp.rows) > 0 THEN SummaryObject(resp.rows[1]) ELSE SummaryObject(<<>>)
    ELSE resp.obj

NoAnalysis == analyzeTableSchema(<<>>)
NoSummary == SummaryObject(<<>>)

\* queryTool.execute(...) is called: the statement is on its way
Issue(q) ==
    /\ calls' = Append(calls, q)
    /\ inFlight' = inFlight + 1

\* the invocation ends with the given outcome
Finish(o) ==
    /\ pc' = "done"
    /\ outcome' = o

\* execute is entered: the input is read and mcpClient.getTools() is awaited
DetectInvoke ==
    /\ pc = "idle" /\ sendPc = "idle"
    /\ pc' = "getTools"
    /\ input' \in Inputs
    /\ UNCHANGED <<db, calls, inFlight, failedCalls, schemaData, tableAnalysis,
                   summary, candidatesData, outcome>>
    /\ UNCHANGED sendVars /\ UNCHANGED fnVars

\* getTools settles: rejected, without a query tool, not an object, or usable
GetToolsSettles ==
    /\ pc = "getTools"
    /\ \E r \in {"rejected", "no query tool", "undefined", "tools"} :
        CASE r = "rejected" ->
                /\ Finish(Returned(Failure("Database connection failed",
                       "Unable to connect to the PostgreSQL database via MCP.")))
                /\ UNCHANGED <<calls, inFlight>>
          [] r = "no query tool" ->
                /\ Finish(Returned(Failure("Database query tool not available",
                       "The PostgreSQL query tool could not be found in the MCP server.")))
                /\ UNCHANGED <<calls, inFlight>>
          [] r = "undefined" ->
                /\ Finish(CatchAll("Cannot read properties of undefined"))
                /\ UNCHANGED <<calls, inFlight>>
          [] r = "tools" ->
                /\ Issue(discoveryQuery)
                /\ pc' = "catalog"
                /\ UNCHANGED outcome
    /\ UNCHANGED <<input, db, failedCalls, schemaData, tableAnalysis, summary, candidatesData>>
    /\ UNCHANGED sendVars /\ UNCHANGED fnVars

\* the catalog query settles; the schema is analysed and the summary query issued
CatalogSettles ==
    /\ pc = "catalog"
    /\ \E resp \in Responses(db, calls[Len(calls)]) :
        IF resp.kind = "throw"
        THEN /\ Finish(CatchAll(resp.message))
             /\ failedCalls' = failedCalls + 1
             /\ inFlight' = inFlight - 1
             /\ UNCHANGED <<calls, schemaData, tableAnalysis>>
        ELSE /\ schemaData' = ArrayOf(resp)
             /\ failedCalls' = failedCalls
             /\ IF Len(ArrayOf(resp)) = 0
                THEN /\ Finish(Returned(Failure("No database tables found",
                            "Could not find any tables in the public schema.")))
                     /\ inFlight' = inFlight - 1
                     /\ UNCHANGED <<calls, tableAnalysis>>
                ELSE IF AnalyzeThrows(ArrayOf(resp))
                THEN /\ Finish(CatchAll("Cannot read properties of undefined"))
                     /\ inFlight' = inFlight - 1
                     /\ UNCHANGED <<calls, tableAnalysis>>
                ELSE /\ tableAnalysis' = analyzeTableSchema(ArrayOf(resp))
                     /\ IF Falsy(tableAnalysis'.mainTable)
                        THEN /\ Finish(Returned(NoMainTableFailure(tableAnalysis')))
                             /\ inFlight' = inFlight - 1
                             /\ UNCHANGED calls
                        ELSE /\ calls' = Append(calls, summaryQuery(tableAnalysis'))
                             /\ inFlight' = inFlight - 1 + 1
                             /\ pc' = "summary"
                             /\ UNCHANGED outcome
    /\ UNCHANGED <<input, db, summary, candidatesData>>
    /\ UNCHANGED sendVars /\ UNCHANGED fnVars

\* the summary query settles; the detail statement is built and issued
SummarySettles ==
    /\ pc = "summary"
    /\ \E resp \in Responses(db, calls[Len(calls)]) :
        IF resp.kind = "throw"
        THEN /\ Finish(CatchAll(resp.message))
             /\ failedCalls' = failedCalls + 1
             /\ inFlight' = inFlight - 1
             /\ UNCHANGED <<calls, summary>>
        ELSE /\ summary' = FirstRowOf(resp)
             /\ failedCalls' = failedCalls
             /\ calls' = Append(calls, buildDetailedQuery(tableAnalysis,
                                   input.includeRecoveryAnalysis, input.limitResults))
             /\ inFlight' = inFlight - 1 + 1
             /\ pc' = "detail"
             /\ UNCHANGED outcome
    /\ UNCHANGED <<input, db, schemaData, tableAnalysis, candidatesData>>
    /\ UNCHANGED sendVars /\ UNCHANGED fnVars

\* a detail query that threw is issued again
DetailSettlesRetry ==
    /\ pc = "detail"
    /\ \E resp \in Responses(db, calls[Len(calls)]) :
        IF resp.kind = "throw"
        THEN /\ failedCalls' = failedCalls + 1
             /\ calls' = Append(calls, calls[Len(calls)])
             /\ UNCHANGED <<pc, outcome, inFlight, candidatesData>>
        ELSE /\ candidatesData' = ArrayOf(resp)
             /\ failedCalls' = failedCalls
             /\ inFlight' = inFlight - 1
             /\ UNCHANGED calls
             /\ IF AssembleThrows(tableAnalysis, summary, ArrayOf(resp))
                THEN Finish(CatchAll("Cannot read properties of null"))
                ELSE Finish(Returned(SuccessResult(tableAnalysis, summary, ArrayOf(resp), input)))
    /\ UNCHANGED <<input, db, schemaData, tableAnalysis, summary>>
    /\ UNCHANGED sendVars /\ UNCHANGED fnVars

\* the detail query settles; the report is assembled and returned
DetailSettles ==
    /\ pc = "detail"
    /\ \E resp \in Responses(db, calls[Len(calls)]) :
        IF resp.kind = "throw"
        THEN /\ Finish(CatchAll(resp.message))
             /\ failedCalls' = failedCalls + 1
             /\ UNCHANGED candidatesData
        ELSE /\ candidatesData' = ArrayOf(resp)
             /\ failedCalls' = failedCalls
             /\ IF AssembleThrows(tableAnalysis, summary, ArrayOf(resp))
                THEN Finish(CatchAll("Cannot read properties of null"))
                ELSE Finish(Returned(SuccessResult(tableAnalysis, summary, ArrayOf(resp), input)))
    /\ inFlight' = inFlight - 1
    /\ UNCHANGED <<input, db, calls, schemaData, tableAnalysis, summary>>
    /\ UNCHANGED sendVars /\ UNCHANGED fnVars

----------------------------------------------------------------------------
(* send-email: one invocation *)

SendInputs == [to : {"", "jane@x.io"}, subject : {"", "Hello"}, body : {"", "Hi"}]

\* the check without the recipient
MissingRequiredWithoutTo(in) == Falsy(in.subject) \/ Falsy(in.body)

\* !to || !subject || !body
MissingRequired(in) == Falsy(in.to) \/ Falsy(in.subject) \/ Falsy(in.body)

\* execute of sendEmailTool up to its first await: the check of the required
\* fields, then the call of sendEmailWithGmailAPI
sendEmailExecute(m) ==
    /\ sendPc = "idle" /\ pc = "idle"
    /\ sendModule' = m
    /\ sendInput' \in SendInputs
    /\ IF MissingRequired(sendInput')
       THEN /\ sendPc' = "done"
            /\ sendOutcome' = Thrown("Missing required input fields: to, subject, body")
            /\ UNCHANGED transportCalls
       ELSE /\ sendPc' = "transport"
            /\ transportCalls' = transportCalls + 1
            /\ UNCHANGED sendOutcome
    /\ UNCHANGED detectVars /\ UNCHANGED fnVars

\* sendEmailTool of agent-tools.ts
SendEmailInvoke == sendEmailExecute("agent-tools")

\* sendEmailTool of gmail-api-tool.ts
GmailSendEmailInvoke == sendEmailExecute("gmail-api-tool")

\* sendEmailWithGmailAPI settles: resolved, or rejected and rethrown
TransportSettles ==
    /\ sendPc = "transport"
    /\ \E ok \in BOOLEAN :
        sendOutcome' = IF ok THEN Returned([success |-> TRUE])
                       ELSE Thrown("Failed to send email: invalid_grant")
    /\ sendPc' = "done"
    /\ UNCHANGED <<sendModule, sendInput, transportCalls>>
    /\ UNCHANGED detectVars /\ UNCHANGED fnVars

----------------------------------------------------------------------------
(* The tool host: one invocation of one of the two operations *)

\* the input object when the caller passes nothing: the schema's defaults
DefaultInput == [includeRecoveryAnalysis |-> TRUE, limitResults |-> 50, priorityFilter |-> ""]

DetectIdle ==
    /\ pc = "idle" /\ input = DefaultInput /\ calls = <<>> /\ inFlight = 0 /\ failedCalls = 0
    /\ schemaData = <<>> /\ tableAnalysis = NoAnalysis /\ summary = NoSummary
    /\ candidatesData = <<>> /\ outcome = NoOutcome

NoSendInput == [to |-> "", subject |-> "", body |-> ""]

SendIdle ==
    /\ sendPc = "idle" /\ sendModule = "" /\ sendInput = NoSendInput
    /\ transportCalls = 0 /\ sendOutcome = NoOutcome

NotApplied == [applied |-> FALSE]
Applied(v) == [applied |-> TRUE, value |-> v]

Init ==
    /\ db \in Dbs
    /\ DetectIdle
    /\ SendIdle
    /\ fnIn = <<>> /\ fnOut = NotApplied

Next ==
    \/ DetectInvoke
    \/ GetToolsSettles
    \/ CatalogSettles
    \/ SummarySettles
    \/ DetailSettles
    \/ SendEmailInvoke
    \/ GmailSendEmailInvoke
    \/ TransportSettles

Spec == Init /\ [][Next]_vars

----------------------------------------------------------------------------
(* analyzeTableSchema applied to every catalog of the bounded universe *)

InitAnalyze ==
    /\ db = OpaqueDb
    /\ DetectIdle
    /\ SendIdle
    /\ fnIn \in Catalogs
    /\ fnOut = NotApplied

Analyze ==
    /\ fnOut = NotApplied
    /\ fnOut' = Applied(analyzeTableSchema(fnIn))
    /\ UNCHANGED fnIn
    /\ UNCHANGED detectVars /\ UNCHANGED sendVars

NextAnalyze == Analyze

SpecAnalyze == InitAnalyze /\ [][NextAnalyze]_vars

----------------------------------------------------------------------------
(* categorizeCandidatePriority applied to every pair of bounded arrays *)

FieldNames == {"email", "phone_number", "full_name", "mobile"}

InitPriority ==
    /\ db = OpaqueDb
    /\ DetectIdle
    /\ SendIdle
    /\ fnIn \in [missingFields : SeqsUpTo(FieldNames, MaxFields),
                 recoverableFields : SeqsUpTo(FieldNames, MaxFields)]
    /\ fnOut = NotApplied

Categorize ==
    /\ fnOut = NotApplied
    /\ fnOut' = Applied(categorizeCandidatePriority(fnIn.missingFields, fnIn.recoverableFields))
    /\ UNCHANGED fnIn
    /\ UNCHANGED detectVars /\ UNCHANGED sendVars

NextPriority == Categorize

SpecPriority == InitPriority /\ [][NextPriority]_vars

----------------------------------------------------------------------------
(* Properties *)

Succeeded == pc = "done" /\ outcome.status = "returned" /\ outcome.value.success
Failed == pc = "done" /\ outcome.status = "returned" /\ ~outcome.value.success

\* the elements of an array
Range(arr) == {arr[i] : i \in DOMAIN arr}

CallKinds == [i \in DOMAIN calls |-> calls[i].kind]

\* C1: detect-missing-info always ends by returning a value and never by
\* throwing; whenever getTools or a query failed, or a malformed result made
\* the body fault, the value is a failure object with success = false, an
\* error tag and a message.
C1_NeverThrows ==
    /\ outcome.status # "thrown"
    /\ pc = "done" =>
        /\ outcome.status = "returned"
        /\ (failedCalls > 0 \/ Len(calls) < 3) => ~outcome.value.success
        /\ (/\ Len(calls) = 3 /\ failedCalls = 0
            /\ AssembleThrows(tableAnalysis, summary, candidatesData))
              => ~outcome.value.success
        /\ ~outcome.value.success =>
              /\ {"error", "message"} \subseteq DOMAIN outcome.value
              /\ outcome.value.error # "" /\ outcome.value.message # ""

\* a query threw and the invocation still returned a failure object
C1_Witness == Failed /\ failedCalls > 0 /\ Len(calls) = 2

\* the decision order of the priority rule, over the sets of field names
PriorityByOrder(missing, recoverable) ==
    IF "email" \in missing THEN "Critical"
    ELSE IF {"phone_number", "full_name"} \subseteq missing THEN "High"
    ELSE IF \/ "phone_number" \in missing /\ "phone_number" \notin recoverable
            \/ "full_name" \in missing /\ "full_name" \notin recoverable
         THEN "Medium"
    ELSE "Low"

\* C2: categorizeCandidatePriority returns the priority the first-match order
\* Critical, High, Medium, Low gives for the two sets of field names.
C2_PriorityOrder ==
    fnOut.applied =>
        fnOut.value = PriorityByOrder(Range(fnIn.missingFields), Range(fnIn.recoverableFields))

\* both fields missing, both recoverable, still High: the second rule wins
C2_Witness ==
    /\ fnOut.applied /\ fnOut.value = "High"
    /\ {"phone_number", "full_name"} \subseteq Range(fnIn.recoverableFields)

\* the result of the same invocation without a priorityFilter
Unfiltered ==
    SuccessResult(tableAnalysis, summary, candidatesData, [input EXCEPT !.priorityFilter = ""])

\* C3: a run with a priorityFilter returns exactly the records of the
\* unfiltered run that have that priority, in the same order (for Critical,
\* only records of rows flagged missing_email), and the same summary.
C3_FilterFrame ==
    Succeeded =>
        LET Wanted(r) == r.priority = input.priorityFilter
        IN  /\ outcome.value.summary = Unfiltered.summary
            /\ outcome.value.missing_info_report =
                  IF input.priorityFilter = "" THEN Unfiltered.missing_info_report
                  ELSE SelectSeq(Unfiltered.missing_info_report, Wanted)
            /\ input.priorityFilter = "Critical" =>
                  \A r \in Range(outcome.value.missing_info_report) :
                      \E row \in Range(candidatesData) :
                          /\ FlagSet(row, "missing_email")
                          /\ r = MissingInfoRecord(row, tableAnalysis)

\* the filter removed a record that counts as recoverable in the summary
C3_Witness ==
    /\ Succeeded /\ input.priorityFilter = "Critical"
    /\ Len(outcome.value.missing_info_report) = 1
    /\ Len(Unfiltered.missing_info_report) = 2
    /\ outcome.value.summary.recoverable_phones = 1

\* C4: in every assembled record recoverable_fields is a subset of
\* missing_fields, and a field is recoverable only on a row whose missing
\* flag for that field is 1.
C4_RecoverableSubset ==
    Succeeded =>
        /\ \A r \in Range(outcome.value.missing_info_report) :
              Range(r.recoverable_fields) \subseteq Range(r.missing_fields)
        /\ \A row \in Range(candidatesData) :
              HasMissingFlag(row) =>
                  LET rec == MissingInfoRecord(row, tableAnalysis)
                  IN  /\ Range(rec.recoverable_fields) \subseteq Range(rec.missing_fields)
                      /\ ArrIncludes(rec.recoverable_fields, tableAnalysis.phoneField)
                            => FlagSet(row, "missing_phone")
                      /\ ArrIncludes(rec.recoverable_fields, tableAnalysis.nameField)
                            => FlagSet(row, "missing_name")

\* a row offers a recoverable name although its name is not missing
C4_Witness ==
    /\ Succeeded
    /\ \E row \in Range(candidatesData) :
          /\ HasMissingFlag(row) /\ ~FlagSet(row, "missing_name")
          /\ ~Falsy(Get(row, "recoverable_name"))
          /\ MissingInfoRecord(row, tableAnalysis) \in Range(outcome.value.missing_info_report)
    /\ \E r \in Range(outcome.value.missing_info_report) : r.recoverable_fields # <<>>

\* some column of the catalog is email-like, phone-like or name-like
AnyContactColumn(rows) ==
    \E i \in DOMAIN rows :
        MatchesAny(ToLowerCase(rows[i].column_name),
                   emailFieldPatterns \o phoneFieldPatterns \o nameFieldPatterns)

\* C5: mainTable is empty exactly when no table has a contact-like column,
\* and then the four field bindings are empty too.
C5_EmptyMainTable ==
    fnOut.applied =>
        /\ (fnOut.value.mainTable = "") <=> ~AnyContactColumn(fnIn)
        /\ fnOut.value.mainTable = "" =>
              /\ fnOut.value.emailField = "" /\ fnOut.value.phoneField = ""
              /\ fnOut.value.nameField = "" /\ fnOut.value.idField = ""

\* a catalog with tables and no contact-like column
C5_Witness ==
    /\ fnOut.applied /\ fnOut.value.mainTable = ""
    /\ Len(fnOut.value.allTables) = 2

\* the columns of a table, by the rows of the catalog
ColumnsIn(rows, t) == TableColumns(rows, t)

\* the table of the first catalog row whose table has a contact-like column
FirstContactTable(rows) ==
    LET Has(i) == hasContactFields(ColumnsIn(rows, rows[i].table_name))
        at == CHOOSE i \in DOMAIN rows : Has(i) /\ \A j \in 1..(i - 1) : ~Has(j)
    IN  rows[at].table_name

CandidatesAndUsers ==
    {CatalogOf(<<CandidatesTable, UsersTable>>), CatalogOf(<<UsersTable, CandidatesTable>>)}

\* C7 as stated: candidates is chosen whichever of the two tables comes first.
C7_CandidatesAlwaysWins ==
    (fnOut.applied /\ fnIn \in CandidatesAndUsers) => fnOut.value.mainTable = "candidates"

\* C7: candidates and users both match a table-name hint and both score
\* 10 + 4; the table that appears first in the input is chosen.
C7_FirstOfTheTwoWins ==
    (fnOut.applied /\ fnIn \in CandidatesAndUsers) =>
        /\ tableScore("candidates", ColumnsIn(fnIn, "candidates")) = 14
        /\ tableScore("users", ColumnsIn(fnIn, "users")) = 14
        /\ fnOut.value.mainTable = fnIn[1].table_name

\* users comes first and is chosen
C7_Witness ==
    /\ fnOut.applied /\ fnIn = CatalogOf(<<UsersTable, CandidatesTable>>)
    /\ fnOut.value.mainTable = "users"

\* the database of the end-to-end scenario
EndToEndDb ==
    [mode |-> "postgres", tables |-> <<CandidatesTable>>,
     data |-> EndToEndRows(CandidatesTable), resumes |-> <<>>]

\* C8: on the end-to-end database, with the default limit and no filter, a
\* run in which no call fails succeeds with total 3 and one record missing
\* per field, and reports row 2 as Critical and row 3 as High and no other.
C8_EndToEnd ==
    (/\ db = EndToEndDb /\ pc = "done" /\ calls # <<>> /\ failedCalls = 0
     /\ input.limitResults = 50 /\ input.priorityFilter = "") =>
        /\ outcome.status = "returned" /\ outcome.value.success
        /\ outcome.value.summary.total_candidates = 3
        /\ outcome.value.summary.candidates_missing_email = 1
        /\ outcome.value.summary.candidates_missing_phone = 1
        /\ outcome.value.summary.candidates_missing_name = 1
        /\ {<<r.candidate_id, r.priority>> : r \in Range(outcome.value.missing_info_report)}
              = {<<"2", "Critical">>, <<"3", "High">>}
        /\ Len(outcome.value.missing_info_report) = 2

C8_Witness ==
    /\ db = EndToEndDb /\ Succeeded
    /\ input.limitResults = 50 /\ input.priorityFilter = ""
    /\ Len(outcome.value.missing_info_report) = 2

\* C9: the queries are issued in the order catalog, summary, detail, each at
\* most once; at most one is in flight; a query is in flight only while no
\* call has failed; after a failure the invocation is over, with nothing in
\* flight and no query issued again.
C9_SequentialQueries ==
    /\ inFlight \in {0, 1}
    /\ Len(calls) <= 3
    /\ CallKinds = SubSeq(<<"catalog", "summary", "detail">>, 1, Len(calls))
    /\ inFlight = 1 <=> pc \in {"catalog", "summary", "detail"}
    /\ pc = "catalog" => Len(calls) = 1
    /\ pc = "summary" => Len(calls) = 2
    /\ pc = "detail" => Len(calls) = 3
    /\ failedCalls \in {0, 1}
    /\ failedCalls = 1 => pc = "done" /\ inFlight = 0

\* the summary query failed: the detail query was never issued
C9_Witness == pc = "done" /\ failedCalls = 1 /\ Len(calls) = 2

\* C10: when to, subject or body is missing or empty, send-email fails with
\* the missing-required-fields error and the transport is never called.
C10_MalformedInputNoTransport ==
    (/\ sendModule # ""
     /\ \E v \in {sendInput.to, sendInput.subject, sendInput.body} : v \in {"", Null, Undefined}) =>
        /\ transportCalls = 0
        /\ sendPc = "done"
        /\ sendOutcome = Thrown("Missing required input fields: to, subject, body")

\* only the recipient is empty
C10_Witness ==
    /\ sendPc = "done" /\ sendInput.to = "" /\ sendInput.subject # "" /\ sendInput.body # ""
    /\ sendOutcome.status = "thrown" /\ transportCalls = 0

\* a structured failure object: success = false with an error tag and a message
IsFailureObject(v) ==
    /\ ~v.success
    /\ {"error", "message"} \subseteq DOMAIN v
    /\ v.error # "" /\ v.message # ""

\* C11: every operation that ends, ends by returning; what it returns on a
\* failure is a failure object with an error tag and a message, and no
\* failure of detect-missing-info or send-email leaves the operation as a
\* thrown error.
C11_NoFailureEscapes ==
    /\ pc = "done" =>
          /\ outcome.status = "returned"
          /\ ~outcome.value.success => IsFailureObject(outcome.value)
    /\ sendPc = "done" =>
          /\ sendOutcome.status = "returned"
          /\ ~sendOutcome.value.success => IsFailureObject(sendOutcome.value)

\* r is 100 * a / b rounded to the nearest integer, a half rounded up
IsNearestPercent(r, a, b) ==
    /\ 2 * r * b <= 200 * a + b
    /\ 200 * a + b < 2 * (r + 1) * b

\* the rate the claim gives for a missing count of the summary object
RateAsClaimed(rate, recoverable, count) ==
    IF count \in DOMAIN summary.row /\ summary.row[count] > 0
    THEN IsNearestPercent(rate, recoverable, summary.row[count])
    ELSE rate = 0

C12_WitnessAbsent ==
    /\ Succeeded /\ summary.row = <<>>
    /\ outcome.value.summary.phone_recovery_rate = 0

\* arr lists the elements of S, each once
ListsExactly(arr, S) ==
    /\ Range(arr) = S
    /\ \A i, j \in DOMAIN arr : arr[i] = arr[j] => i = j

\* C13: when the analysis of a non-empty catalog yields no main table, the
\* invocation returns a failure object that lists every table of the catalog,
\* and the catalog query is the only query issued.
C13_NoMainTable ==
    (/\ pc = "done" /\ Len(schemaData) > 0 /\ ~AnalyzeThrows(schemaData)
     /\ analyzeTableSchema(schemaData).mainTable = "") =>
        /\ Failed
        /\ IsFailureObject(outcome.value)
        /\ "availableTables" \in DOMAIN outcome.value
        /\ ListsExactly(outcome.value.availableTables,
                        {schemaData[i].table_name : i \in DOMAIN schemaData})
        /\ CallKinds = <<"catalog">>
        /\ inFlight = 0

\* the catalog holds the table jobs only
C13_Witness ==
    /\ Failed /\ failedCalls = 0 /\ Len(schemaData) = 2
    /\ outcome.value.error = "No main contact/candidate table found"
    /\ outcome.value.availableTables = <<"jobs">>
    /\ Len(calls) = 1

\* the column names of table t as the catalog spells them
OriginalColumns(rows, t) == {rows[i].column_name : i \in {j \in DOMAIN rows : rows[j].table_name = t}}

\* C14: the identifiers analyzeTableSchema emits are spelled as in the
\* catalog: mainTable is a table name of the catalog, and every bound field
\* is a column name of that table in its original case (idField may be the
\* default 'id').
C14_CasePreserved ==
    (fnOut.applied /\ fnOut.value.mainTable # "") =>
        LET out == fnOut.value
            cols == OriginalColumns(fnIn, out.mainTable)
        IN  /\ out.mainTable \in {fnIn[i].table_name : i \in DOMAIN fnIn}
            /\ out.emailField \in cols \cup {""}
            /\ out.phoneField \in cols \cup {""}
            /\ out.nameField \in cols \cup {""}
            /\ out.idField \in cols \cup {"id"}

\* the priority of a detail row when the rules are read on the bound fields
PriorityByBinding(row, ta) ==
    LET missingEmail == ta.emailField # "" /\ FlagSet(row, "missing_email")
        missingPhone == ta.phoneField # "" /\ FlagSet(row, "missing_phone")
        missingName  == ta.nameField # "" /\ FlagSet(row, "missing_name")
        phoneBack == ~Falsy(Get(row, "recoverable_phone"))
        nameBack  == ~Falsy(Get(row, "recoverable_name"))
    IN  IF missingEmail THEN "Critical"
        ELSE IF missingPhone /\ missingName THEN "High"
        ELSE IF (missingPhone /\ ~phoneBack) \/ (missingName /\ ~nameBack) THEN "Medium"
        ELSE "Low"

\* C15: whatever the bound columns are called, a record whose missing_email
\* flag is 1 is Critical, and the High and Medium rules are applied to the
\* bound phone and name fields.
C15_PriorityOnBoundFields ==
    (Succeeded /\ input.priorityFilter = "") =>
        LET kept == SelectSeq(candidatesData, HasMissingFlag)
            report == outcome.value.missing_info_report
        IN  /\ Len(report) = Len(kept)
            /\ \A i \in DOMAIN kept :
                  report[i].priority = PriorityByBinding(kept[i], tableAnalysis)

\* C16: for a detail row of the statement buildDetailedQuery builds, the
\* record's email, phone_number and full_name are the row's email, phone and
\* name (null for NULL), so a field that is not missing is reported with its
\* value.
C16_RecordCarriesRowValues ==
    (Succeeded /\ db.mode = "postgres" /\ input.priorityFilter = "") =>
        LET kept == SelectSeq(candidatesData, HasMissingFlag)
            report == outcome.value.missing_info_report
        IN  /\ Len(report) = Len(kept)
            /\ \A i \in DOMAIN kept :
                  /\ report[i].email = kept[i]["email"]
                  /\ report[i].phone_number = kept[i]["phone"]
                  /\ report[i].full_name = kept[i]["name"]

\* C17: in a successful report over a database, the recoverable counts do not
\* exceed the missing counts of the summary and both recovery rates lie in
\* 0..100, also when the join yields several rows for one record.
C17_RecoverableWithinMissing ==
    (Succeeded /\ db.mode = "postgres") =>
        LET s == outcome.value.summary
        IN  /\ s.recoverable_phones <= s.candidates_missing_phone
            /\ s.recoverable_names <= s.candidates_missing_name
            /\ s.phone_recovery_rate \in 0..100
            /\ s.name_recovery_rate \in 0..100

====
